---- MODULE Spec2Model ----
(***************************************************************************)
(* Model of the CEF off-screen rendering plugin of WorkspaceApp            *)
(* (workspace-ui/src-tauri/cef-plugin): the BrowserManager registry, the   *)
(* OsrBrowserInstance surfaces and their FrameBuffer.                      *)
(*                                                                         *)
(* Spec      - the registry driven by one caller: every BrowserManager     *)
(*             method, and the backend's paint, run to completion.         *)
(* SpecFocus - concurrent focus_browser calls, one step per map entry.     *)
(* SpecPull  - concurrent create_browser, update_bounds, get_frame,        *)
(*             get_all_frames and backend paints, one step per lock hold.  *)
(* SpecPlugin - the commands of lib.rs, cef_init and cef_shutdown          *)
(*             included, run by concurrent callers.                        *)
(* SpecSwap, SpecMerge, SpecBatch - the functions of transfer.rs.          *)
(* SpecWebTab - the web-tab commands of src-tauri/src/lib.rs and the       *)
(*             orphan clean-up, run by concurrent callers.                 *)
(***************************************************************************)
EXTENDS Integers, Sequences, FiniteSets, TLC

VARIABLES
    browsers,   \* BrowserManager.browsers: id -> OsrBrowserInstance (DashMap)
    last,       \* the call that completed last in Spec, with what it returned
    closed,     \* history: ids closed with Ok and not created again since
    thr,        \* per concurrent caller: the call in progress and its locals
    shardOf,    \* DashMap: the shard each key hashes to
    wlock,      \* DashMap: per shard, the caller holding its write lock
    rlock,      \* DashMap: per shard, the callers holding its read lock
    dirtied,    \* history: per id, lock holds that set FrameBuffer.dirty
    delivered,  \* history: per id, frames handed out by get_frame
    manager,    \* CefPluginState.manager: TRUE when it holds Some(BrowserManager)
    initialized,\* CefPluginState.initialized
    mgrLock,    \* the RwLock around manager: its writer and its readers
    initLock,   \* the RwLock around initialized: its writer
    pixels,     \* transfer.rs: the byte slice handed to bgra_to_rgba
    rects,      \* transfer.rs: two DirtyRects and the result of merging them
    batch,      \* transfer.rs: a FrameBatch
    added,      \* history: the frames passed to FrameBatch::add, in order
    tabs,       \* src/lib.rs WebTabState.tabs: the keys of the map
    windows     \* src/lib.rs: the labels of the webview windows the app holds

pluginVars == <<manager, initialized, mgrLock, initLock>>
transferVars == <<pixels, rects, batch, added>>
webVars == <<tabs, windows>>

vars == <<browsers, last, closed, pluginVars, transferVars, thr, shardOf, wlock, rlock, dirtied, delivered,
          pluginVars, transferVars, webVars>>

(***************************************************************************)
(* Inputs                                                                  *)
(***************************************************************************)
Ids == {"a", "b"}
NoId == "-"
Urls == {"u1"}
\* urls passed to navigate
NavUrls == {"u1", "u2"}
NoUrl == "-"

\* renderer.rs: bounds.width.max(100), bounds.height.max(100)
MinSize == 100
\* renderer.rs: width * height * 4, BGRA
BytesPerPixel == 4
\* how far above MinSize the requested and painted sizes go
ExtraSize == 1

Bounds(x, y, w, h) == [x |-> x, y |-> y, width |-> w, height |-> h]
NoBounds == Bounds(0, 0, 0, 0)

\* CefBounds values a caller passes (i32 fields): negative, zero, below and
\* above the minimum, and 32768 x 32768, whose byte size is 2^32
BoundsInputs ==
    { Bounds(-7, 3, -1, 0),
      Bounds(10, 20, MinSize + ExtraSize, MinSize - 1),
      Bounds(0, 0, 32768, 32768) }

Max(a, b) == IF a >= b THEN a ELSE b
Min(a, b) == IF a <= b THEN a ELSE b

(***************************************************************************)
(* Vec<u8>.  A byte vector is kept as its runs: a sequence of              *)
(* [n |-> length, c |-> content], where the content of a run is            *)
(*   Zero         every byte 0                                             *)
(*   Paint(v)     bytes of the backend's paint number v                    *)
(*   Grad(w, h)   the placeholder gradient of a w x h surface, each byte   *)
(*                the one generate_placeholder_frame writes at its index   *)
(* Adjacent runs of one content are one run and no run is empty, so equal  *)
(* vectors have equal representations.                                     *)
(***************************************************************************)
Zero == <<"zero", 0, 0>>
Paint(v) == <<"paint", v, 0>>
Grad(w, h) == <<"grad", w, h>>

Run(n, c) == [n |-> n, c |-> c]

RECURSIVE DataLen(_)
DataLen(d) == IF d = <<>> THEN 0 ELSE Head(d).n + DataLen(Tail(d))

\* v.len() >= k, for a slice whose length need not fit in 31 bits
RECURSIVE LenAtLeast(_, _)
LenAtLeast(d, k) ==
    IF k <= 0 THEN TRUE
    ELSE IF d = <<>> THEN FALSE
    ELSE LenAtLeast(Tail(d), k - Head(d).n)

RECURSIVE Norm(_)
Norm(d) ==
    IF d = <<>> THEN <<>>
    ELSE IF Head(d).n = 0 THEN Norm(Tail(d))
    ELSE IF Len(d) = 1 THEN d
    ELSE IF d[2].n = 0 THEN Norm(<<d[1]>> \o Tail(Tail(d)))
    ELSE IF d[1].c = d[2].c
         THEN Norm(<<Run(d[1].n + d[2].n, d[1].c)>> \o Tail(Tail(d)))
    ELSE <<d[1]>> \o Norm(Tail(d))

\* &v[..k]
RECURSIVE TakeBytes(_, _)
TakeBytes(d, k) ==
    IF k <= 0 \/ d = <<>> THEN <<>>
    ELSE IF Head(d).n <= k THEN <<Head(d)>> \o TakeBytes(Tail(d), k - Head(d).n)
    ELSE <<Run(k, Head(d).c)>>

\* &v[k..]
RECURSIVE DropBytes(_, _)
DropBytes(d, k) ==
    IF k <= 0 \/ d = <<>> THEN d
    ELSE IF Head(d).n <= k THEN DropBytes(Tail(d), k - Head(d).n)
    ELSE <<Run(Head(d).n - k, Head(d).c)>> \o Tail(d)

\* vec![0u8; size]
ZeroVec(size) == Norm(<<Run(size, Zero)>>)

\* Vec::resize(size, 0): truncates, or appends zeros; the bytes kept are untouched
VecResize(d, size) ==
    IF size <= DataLen(d) THEN TakeBytes(d, size)
    ELSE Norm(d \o <<Run(size - DataLen(d), Zero)>>)

\* data[..size].copy_from_slice(&buffer[..size])
CopyFromSlice(d, buffer, size) == Norm(TakeBytes(buffer, size) \o DropBytes(d, size))

\* the byte at index i (from 0) of a vector
RECURSIVE RunAt(_, _)
RunAt(d, i) == IF i < Head(d).n THEN Head(d) ELSE RunAt(Tail(d), i - Head(d).n)

ByteAt(d, i) ==
    LET c == RunAt(d, i).c
        px == i \div BytesPerPixel
        ch == i % BytesPerPixel
    IN  IF c[1] = "zero" THEN 0
        ELSE IF c[1] = "paint" THEN c[2]
        ELSE IF ch = 0 THEN ((px % c[2]) * 255) \div c[2]
        ELSE IF ch = 1 THEN ((px \div c[2]) * 255) \div c[3]
        ELSE IF ch = 2 THEN 100
        ELSE 255

(***************************************************************************)
(* FrameBuffer (renderer.rs)                                               *)
(***************************************************************************)
\* (width * height * 4) as usize, the product taken in u32: it wraps at 2^32.
\* (w*h mod 2^30) * 4 = w*h*4 mod 2^32.
ByteSize(w, h) == ((w * h) % 1073741824) * BytesPerPixel

FrameBuffer_new(w, h) ==
    [data |-> ZeroVec(ByteSize(w, h)), width |-> w, height |-> h, dirty |-> FALSE]

FrameBuffer_resize(fb, w, h) ==
    [data |-> VecResize(fb.data, ByteSize(w, h)), width |-> w, height |-> h,
     dirty |-> TRUE]

FrameBuffer_update(fb, buffer, w, h) ==
    LET fb1 == IF fb.width # w \/ fb.height # h THEN FrameBuffer_resize(fb, w, h)
               ELSE fb
        size == ByteSize(w, h)
    IN  IF LenAtLeast(buffer, size)
        THEN [fb1 EXCEPT !.data = CopyFromSlice(fb1.data, buffer, size),
                         !.dirty = TRUE]
        ELSE fb1

NoneOut == <<>>
SomeOut(x) == <<x>>

\* take_if_dirty without `self.dirty = false`
FrameBuffer_take_keeps_dirty(fb) ==
    IF fb.dirty
    THEN [fb |-> fb,
          out |-> SomeOut([data |-> fb.data, width |-> fb.width, height |-> fb.height])]
    ELSE [fb |-> fb, out |-> NoneOut]

\* Option<(Vec<u8>, u32, u32)> as a sequence of at most one element
FrameBuffer_take_if_dirty(fb) ==
    IF fb.dirty
    THEN [fb |-> [fb EXCEPT !.dirty = FALSE],
          out |-> SomeOut([data |-> fb.data, width |-> fb.width, height |-> fb.height])]
    ELSE [fb |-> fb, out |-> NoneOut]

(***************************************************************************)
(* OsrBrowserInstance (renderer.rs)                                        *)
(***************************************************************************)
\* the width clamped one below the minimum
ClampW_below(bounds) == Max(bounds.width, MinSize - 1)

\* bounds.width.max(100) as u32, bounds.height.max(100) as u32
ClampW(bounds) == Max(bounds.width, MinSize)
ClampH(bounds) == Max(bounds.height, MinSize)

\* The gradient loop: pixel p is written when its index 4p + 3 is inside the
\* data.  For the sizes of BoundsInputs the data holds all w*h pixels or none.
GradFill(d, w, h) ==
    LET k == Min(w * h, DataLen(d) \div BytesPerPixel) * BytesPerPixel
    IN  Norm(<<Run(k, Grad(w, h))>> \o DropBytes(d, k))

\* The frame_buffer.write() section of generate_placeholder_frame, for the
\* size read from bounds.
PlaceholderFill(fb, w, h) ==
    LET fb1 == FrameBuffer_resize(fb, w, h)
    IN  [fb1 EXCEPT !.data = GradFill(fb1.data, w, h), !.dirty = TRUE]

\* no placeholder is drawn
generate_placeholder_skipped(inst) == inst

generate_placeholder_frame(inst) ==
    [inst EXCEPT !.frame_buffer =
        PlaceholderFill(@, ClampW(inst.bounds), ClampH(inst.bounds))]

\* a new instance that starts focused
Osr_new_focused(id, url, bounds) ==
    generate_placeholder_frame(
        [id |-> id, url |-> url, bounds |-> bounds,
         frame_buffer |-> FrameBuffer_new(ClampW(bounds), ClampH(bounds)),
         is_loading |-> TRUE, is_focused |-> TRUE])

Osr_new(id, url, bounds) ==
    generate_placeholder_frame(
        [id |-> id, url |-> url, bounds |-> bounds,
         frame_buffer |-> FrameBuffer_new(ClampW(bounds), ClampH(bounds)),
         is_loading |-> TRUE, is_focused |-> FALSE])

\* *self.bounds.write() = bounds
Osr_write_bounds(inst, bounds) == [inst EXCEPT !.bounds = bounds]

\* self.frame_buffer.write().resize(width, height)
Osr_resize_buffer(inst, bounds) ==
    [inst EXCEPT !.frame_buffer = FrameBuffer_resize(@, ClampW(bounds), ClampH(bounds))]

Osr_update_bounds(inst, bounds) ==
    generate_placeholder_frame(Osr_resize_buffer(Osr_write_bounds(inst, bounds), bounds))

\* FrameData
Frame(id, t) ==
    [browser_id |-> id, width |-> t.width, height |-> t.height, format |-> "BGRA8",
     data |-> t.data]

\* get_frame that hands out the buffer whether or not it is dirty
Osr_get_frame_stale(inst) ==
    LET fb == inst.frame_buffer
    IN  [inst |-> [inst EXCEPT !.frame_buffer.dirty = FALSE],
         out |-> SomeOut(Frame(inst.id, fb))]

Osr_get_frame(inst) ==
    LET r == FrameBuffer_take_if_dirty(inst.frame_buffer)
    IN  [inst |-> [inst EXCEPT !.frame_buffer = r.fb],
         out |-> IF r.out = NoneOut THEN NoneOut ELSE SomeOut(Frame(inst.id, r.out[1]))]

Osr_set_focus(inst, focused) == [inst EXCEPT !.is_focused = focused]

\* BrowserInfo
Osr_get_info(inst) ==
    [id |-> inst.id, url |-> inst.url, bounds |-> inst.bounds,
     is_loading |-> inst.is_loading]

\* OsrRenderHandler::on_paint: frame_buffer.write().update(buffer, width, height)
Osr_on_paint(inst, p) ==
    [inst EXCEPT !.frame_buffer = FrameBuffer_update(@, p.buffer, p.width, p.height)]

(***************************************************************************)
(* BrowserManager (manager.rs), each method as a function of the map m     *)
(***************************************************************************)
MapInsert(m, id, inst) ==
    [k \in DOMAIN m \cup {id} |-> IF k = id THEN inst ELSE m[k]]
MapRemove(m, id) == [k \in DOMAIN m \ {id} |-> m[k]]
EmptyMap == [k \in {} |-> 0]

\* the orders in which DashMap::iter may yield the keys of S
Orders(S) ==
    { o \in [1..Cardinality(S) -> S] : \A i, j \in 1..Cardinality(S) : i # j => o[i] # o[j] }

\* create_browser without the contains_key check
create_browser_overwrites(m, id, url, bounds) ==
    [m |-> MapInsert(m, id, Osr_new(id, url, bounds)), res |-> "ok"]

create_browser(m, id, url, bounds) ==
    IF id \in DOMAIN m
    THEN [m |-> m, res |-> "AlreadyExists"]
    ELSE [m |-> MapInsert(m, id, Osr_new(id, url, bounds)), res |-> "ok"]

\* close_browser that ignores a missing id
close_browser_silent(m, id) == [m |-> MapRemove(m, id), res |-> "ok"]

close_browser(m, id) ==
    IF id \in DOMAIN m
    THEN [m |-> MapRemove(m, id), res |-> "ok"]
    ELSE [m |-> m, res |-> "NotFound"]

update_bounds(m, id, bounds) ==
    IF id \in DOMAIN m
    THEN [m |-> [m EXCEPT ![id] = Osr_update_bounds(@, bounds)], res |-> "ok"]
    ELSE [m |-> m, res |-> "NotFound"]

\* navigate that redraws the placeholder of the instance
navigate_redraws(m, id, url) ==
    IF id \in DOMAIN m
    THEN [m |-> [m EXCEPT ![id] = generate_placeholder_frame(@)], res |-> "ok"]
    ELSE [m |-> m, res |-> "NotFound"]

navigate(m, id, url) ==
    [m |-> m, res |-> IF id \in DOMAIN m THEN "ok" ELSE "NotFound"]

send_mouse_event(m, id) ==
    [m |-> m, res |-> IF id \in DOMAIN m THEN "ok" ELSE "NotFound"]

send_key_event(m, id) ==
    [m |-> m, res |-> IF id \in DOMAIN m THEN "ok" ELSE "NotFound"]

\* self.browsers.get(id).and_then(|b| b.get_frame()): None for a missing id too
get_frame(m, id) ==
    IF id \in DOMAIN m
    THEN LET r == Osr_get_frame(m[id])
         IN  [m |-> [m EXCEPT ![id] = r.inst], out |-> r.out]
    ELSE [m |-> m, out |-> NoneOut]

\* iter().filter_map(|entry| entry.value().get_frame()).collect(), in order o
\* get_all_frames that stops after the first entry
get_all_frames_first(m, o) ==
    IF o = <<>> THEN [m |-> m, out |-> <<>>] ELSE get_frame(m, Head(o))

RECURSIVE get_all_frames(_, _)
get_all_frames(m, o) ==
    IF o = <<>> THEN [m |-> m, out |-> <<>>]
    ELSE LET r == get_frame(m, Head(o))
             rest == get_all_frames(r.m, Tail(o))
         IN  [m |-> rest.m, out |-> r.out \o rest.out]

\* the loop of focus_browser: set_focus(false) on every entry whose key is not id
UnfocusOthers(m, id) ==
    [k \in DOMAIN m |-> IF k # id THEN Osr_set_focus(m[k], FALSE) ELSE m[k]]

focus_browser(m, id) ==
    LET m1 == UnfocusOthers(m, id)
    IN  IF id \in DOMAIN m1
        THEN [m |-> [m1 EXCEPT ![id] = Osr_set_focus(@, TRUE)], res |-> "ok"]
        ELSE [m |-> m1, res |-> "NotFound"]

list_browsers(m, o) == [i \in 1..Len(o) |-> Osr_get_info(m[o[i]])]

(***************************************************************************)
(* Spec: one caller, every call run to completion                          *)
(***************************************************************************)
\* what the backend hands to on_paint: a full frame, or one a byte short
PaintSizes == { <<MinSize, MinSize>>, <<MinSize + ExtraSize, MinSize>> }
\* the buffers painted for a byte size: one byte short, exact, one byte more
PaintBuffers(size) ==
    { <<Run(size - 1, Paint(1))>>,
      <<Run(size, Paint(1))>>,
      <<Run(size, Paint(1)), Run(1, Paint(2))>> }
\* a full frame of 32768 x 32768 pixels: 2^32 bytes, in four runs of 2^30
HugePaint ==
    [width |-> 32768, height |-> 32768,
     buffer |-> << Run(1073741824, Paint(1)), Run(1073741824, Paint(2)),
                   Run(1073741824, Paint(1)), Run(1073741824, Paint(2)) >>]
PaintInputs ==
    UNION { { [width |-> s[1], height |-> s[2], buffer |-> b] :
                b \in PaintBuffers(ByteSize(s[1], s[2])) } : s \in PaintSizes }
    \cup {HugePaint}
NoPaint == [width |-> 0, height |-> 0, buffer |-> <<>>]

Threads == {"t1", "t2"}
Shards == {1, 2}
NoThread == "-"
Idle == [pc |-> "idle"]

\* a free RwLock
FreeLock == [w |-> NoThread, r |-> {}]

\* CefPluginState after cef_init: the manager is there, no lock is held
PluginReady ==
    /\ manager = TRUE
    /\ initialized = TRUE
    /\ mgrLock = FreeLock
    /\ initLock = FreeLock

\* nothing handed to the functions of transfer.rs
TransferIdle ==
    /\ pixels = <<>>
    /\ rects = <<>>
    /\ batch = <<>>
    /\ added = <<>>

\* Window labels as <<prefix, rest>>, so that starts_with is a test on the
\* label
Label(prefix, rest) == <<prefix, rest>>
MainLabel == Label("", "main")
\* the web-tab layer of src/lib.rs after start-up: no tab, the main window
WebTabsUnused ==
    /\ tabs = {}
    /\ windows = {MainLabel}

\* no caller inside the registry, no shard lock held, nothing counted
CallersIdle ==
    /\ thr = [t \in Threads |-> Idle]
    /\ shardOf = [id \in Ids |-> 1]
    /\ wlock = [s \in Shards |-> NoThread]
    /\ rlock = [s \in Shards |-> {}]
    /\ dirtied = [id \in Ids |-> 0]
    /\ delivered = [id \in Ids |-> 0]

\* the state of the callers, the locks, the counters and transfer.rs while unused
ConcInit ==
    /\ CallersIdle
    /\ PluginReady
    /\ TransferIdle
    /\ WebTabsUnused

concVars == <<thr, shardOf, wlock, rlock, dirtied, delivered, pluginVars, transferVars, webVars>>

Call(op, id, url, bounds, paint, res, out, infos) ==
    [op |-> op, id |-> id, url |-> url, bounds |-> bounds, paint |-> paint,
     res |-> res, out |-> out, infos |-> infos]

\* BrowserManager::new
Init ==
    /\ browsers = EmptyMap
    /\ last = Call("new", NoId, NoUrl, NoBounds, NoPaint, "ok", <<>>, <<>>)
    /\ closed = {}
    /\ ConcInit

CreateBrowser(id, url, bounds) ==
    LET r == create_browser(browsers, id, url, bounds)
    IN  /\ browsers' = r.m
        /\ last' = Call("create", id, url, bounds, NoPaint, r.res, <<>>, <<>>)
        /\ closed' = IF r.res = "ok" THEN closed \ {id} ELSE closed
        /\ UNCHANGED concVars

CloseBrowser(id) ==
    LET r == close_browser(browsers, id)
    IN  /\ browsers' = r.m
        /\ last' = Call("close", id, NoUrl, NoBounds, NoPaint, r.res, <<>>, <<>>)
        /\ closed' = IF r.res = "ok" THEN closed \cup {id} ELSE closed
        /\ UNCHANGED concVars

UpdateBounds(id, bounds) ==
    LET r == update_bounds(browsers, id, bounds)
    IN  /\ browsers' = r.m
        /\ last' = Call("update_bounds", id, NoUrl, bounds, NoPaint, r.res, <<>>, <<>>)
        /\ UNCHANGED <<closed, concVars>>

Navigate(id, url) ==
    LET r == navigate(browsers, id, url)
    IN  /\ browsers' = r.m
        /\ last' = Call("navigate", id, url, NoBounds, NoPaint, r.res, <<>>, <<>>)
        /\ UNCHANGED <<closed, concVars>>

GetFrame(id) ==
    LET r == get_frame(browsers, id)
    IN  /\ browsers' = r.m
        /\ last' = Call("get_frame", id, NoUrl, NoBounds, NoPaint,
                        IF r.out = NoneOut THEN "None" ELSE "Some", r.out, <<>>)
        /\ UNCHANGED <<closed, concVars>>

GetAllFrames ==
    \E o \in Orders(DOMAIN browsers) :
        LET r == get_all_frames(browsers, o)
        IN  /\ browsers' = r.m
            /\ last' = Call("get_all_frames", NoId, NoUrl, NoBounds, NoPaint, "ok",
                            r.out, <<>>)
            /\ UNCHANGED <<closed, concVars>>

SendMouseEvent(id) ==
    LET r == send_mouse_event(browsers, id)
    IN  /\ browsers' = r.m
        /\ last' = Call("send_mouse_event", id, NoUrl, NoBounds, NoPaint, r.res, <<>>, <<>>)
        /\ UNCHANGED <<closed, concVars>>

SendKeyEvent(id) ==
    LET r == send_key_event(browsers, id)
    IN  /\ browsers' = r.m
        /\ last' = Call("send_key_event", id, NoUrl, NoBounds, NoPaint, r.res, <<>>, <<>>)
        /\ UNCHANGED <<closed, concVars>>

FocusBrowser(id) ==
    LET r == focus_browser(browsers, id)
    IN  /\ browsers' = r.m
        /\ last' = Call("focus", id, NoUrl, NoBounds, NoPaint, r.res, <<>>, <<>>)
        /\ UNCHANGED <<closed, concVars>>

ListBrowsers ==
    \E o \in Orders(DOMAIN browsers) :
        /\ last' = Call("list", NoId, NoUrl, NoBounds, NoPaint, "ok", <<>>,
                        list_browsers(browsers, o))
        /\ UNCHANGED <<browsers, closed, concVars>>

\* the rendering backend paints into a live instance's frame buffer
OnPaint(id, p) ==
    /\ id \in DOMAIN browsers
    /\ browsers' = [browsers EXCEPT ![id] = Osr_on_paint(@, p)]
    /\ last' = Call("on_paint", id, NoUrl, NoBounds, p, "ok", <<>>, <<>>)
    /\ UNCHANGED <<closed, concVars>>

Next ==
    \/ \E id \in Ids, url \in Urls, b \in BoundsInputs : CreateBrowser(id, url, b)
    \/ \E id \in Ids : CloseBrowser(id)
    \/ \E id \in Ids, b \in BoundsInputs : UpdateBounds(id, b)
    \/ \E id \in Ids, url \in NavUrls : Navigate(id, url)
    \/ \E id \in Ids : GetFrame(id)
    \/ GetAllFrames
    \/ \E id \in Ids : SendMouseEvent(id)
    \/ \E id \in Ids : SendKeyEvent(id)
    \/ \E id \in Ids : FocusBrowser(id)
    \/ ListBrowsers
    \/ \E id \in Ids, p \in PaintInputs : OnPaint(id, p)

Spec == Init /\ [][Next]_vars

(***************************************************************************)
(* Properties of Spec                                                      *)
(***************************************************************************)
Live == DOMAIN browsers
Focused(m) == { id \in DOMAIN m : m[id].is_focused }
Surface(id) == browsers[id].frame_buffer

\* C2: in a sequence of focus calls (ids live or not) on a registry that holds
\* an instance, after each call exactly one instance is focused, and it is the
\* instance most recently focused: the target of a call that returns Ok, and
\* the instance focused before the call when the call fails.
C2_FocusLeavesExactlyOne ==
    [][(last'.op = "focus" /\ Focused(browsers) # {})
        => /\ Cardinality(Focused(browsers')) = 1
           /\ Focused(browsers') =
                IF last'.res = "ok" THEN {last'.id} ELSE Focused(browsers)]_vars

\* C3: with the calls made one at a time, at most one live instance is focused
\* in every reachable state, and create, close and update_bounds set no focus
\* flag (a new instance is unfocused).
C3_AtMostOneFocused ==
    /\ [](Cardinality(Focused(browsers)) <= 1)
    /\ [][last'.op \in {"create", "close", "update_bounds"}
          => Focused(browsers') \subseteq Focused(browsers)]_vars

C3_Witness ==
    /\ last.op = "create" /\ last.res = "ok"
    /\ Cardinality(Live) = 2
    /\ Cardinality(Focused(browsers)) = 1

\* C4: create on a live id returns AlreadyExists and changes no instance;
\* create on an id that is not live returns Ok and makes the id live.
C4_CreateDuplicateRejected ==
    [][last'.op = "create"
       => IF last'.id \in DOMAIN browsers
          THEN last'.res = "AlreadyExists" /\ browsers' = browsers
          ELSE last'.res = "ok" /\ last'.id \in DOMAIN browsers']_vars

C4_Witness ==
    /\ last.op = "create" /\ last.res = "AlreadyExists"
    /\ last.id \in Live
    /\ browsers[last.id].is_focused
    /\ browsers[last.id].bounds # last.bounds
    /\ ~Surface(last.id).dirty

\* C5: after close(id) returned Ok and until id is created again, every call
\* that names id (close, update_bounds, navigate, get_frame, send_mouse_event,
\* send_key_event, focus) reports NotFound.
C5_ClosedIdNotFound ==
    [][(/\ last'.op \in {"close", "update_bounds", "navigate", "get_frame",
                         "send_mouse_event", "send_key_event", "focus"}
        /\ last'.id \in closed)
       => last'.res = "NotFound"]_vars

\* C6: close, update_bounds, navigate, send_mouse_event and send_key_event on
\* an id that is not live return NotFound and change neither the set of live
\* ids nor any instance.
C6_MissingIdNotFound ==
    [][(/\ last'.op \in {"close", "update_bounds", "navigate",
                         "send_mouse_event", "send_key_event"}
        /\ last'.id \notin DOMAIN browsers)
       => last'.res = "NotFound" /\ browsers' = browsers]_vars

C6_Witness ==
    /\ last.op = "update_bounds" /\ last.res = "NotFound"
    /\ Live # {}

\* C7: a get_frame on a dirty surface returns its frame and clears the dirty
\* flag, and the get_frame that follows with no write or resize in between
\* returns no frame; a get_frame on a clean surface returns no frame and
\* leaves it clean.
C7_PullTwice ==
    [][(last'.op = "get_frame" /\ last'.id \in DOMAIN browsers)
       => LET id == last'.id
              fb == browsers[id].frame_buffer
          IN  IF fb.dirty
              THEN /\ last'.out = SomeOut(Frame(id, fb))
                   /\ ~browsers'[id].frame_buffer.dirty
                   /\ get_frame(browsers', id).out = NoneOut
                   /\ get_frame(browsers', id).m = browsers'
              ELSE /\ last'.out = NoneOut
                   /\ browsers' = browsers]_vars

C7_Witness ==
    /\ last.op = "get_frame" /\ last.res = "Some"
    /\ last.id \in Live
    /\ ~Surface(last.id).dirty

\* sizes requested of create and update_bounds, around zero and the minimum
ProbeSizes == {-1, 0, MinSize - 1, MinSize, MinSize + ExtraSize}
ProbeBounds ==
    { Bounds(0, 0, p[1], p[2]) :
        p \in { q \in ProbeSizes \X ProbeSizes :
                  q[1] = q[2] \/ MinSize + ExtraSize \in {q[1], q[2]} } }

HasSize(m, id, w, h) ==
    LET out == get_frame(m, id).out
    IN  /\ m[id].frame_buffer.width = Max(w, MinSize)
        /\ m[id].frame_buffer.height = Max(h, MinSize)
        /\ out # NoneOut
        /\ out[1].width = Max(w, MinSize)
        /\ out[1].height = Max(h, MinSize)

\* C10: for every requested (w, h), also below 100, zero or negative, create on
\* an id that is not live and update_bounds on a live id succeed, the surface
\* is then max(w,100) by max(h,100), and the next frame pulled has that size.
C10_ClampedSize ==
    /\ (last.op \in {"create", "update_bounds"} /\ last.res = "ok")
        => HasSize(browsers, last.id, last.bounds.width, last.bounds.height)
    /\ \A id \in Ids, b \in ProbeBounds :
        LET r == IF id \in Live THEN update_bounds(browsers, id, b)
                 ELSE create_browser(browsers, id, "u1", b)
        IN  r.res = "ok" /\ HasSize(r.m, id, b.width, b.height)

C10_Witness ==
    /\ last.op = "update_bounds" /\ last.res = "ok"
    /\ last.bounds.width < 0
    /\ Surface(last.id).width = MinSize
    /\ Surface(last.id).dirty

(***************************************************************************)
(* SpecFocus: callers inside focus_browser at the same time.  The loop     *)
(* visits the entries one at a time, in any order, and takes the           *)
(* is_focused lock of one entry per visit; the map is only read, so the    *)
(* shard read locks never make a caller wait.                              *)
(***************************************************************************)
\* a registry after create_browser of every id, by one caller
AllCreated ==
    LET b == CHOOSE x \in BoundsInputs : x.width < 0
    IN  create_browser(create_browser(EmptyMap, "a", "u1", b).m, "b", "u1", b).m

InitFocus ==
    /\ browsers = AllCreated
    /\ last = Call("create", "b", "u1", NoBounds, NoPaint, "ok", <<>>, <<>>)
    /\ closed = {}
    /\ ConcInit

Returned(t) == thr[t].pc = "done"
CanCall(t) == thr[t].pc \in {"idle", "done"}

\* focus_browser is entered: self.browsers.iter()
FocusEnter(t, id) ==
    /\ CanCall(t)
    /\ thr' = [thr EXCEPT ![t] = [pc |-> "focus_loop", op |-> "focus", id |-> id,
                                  todo |-> DOMAIN browsers, res |-> "-"]]
    /\ UNCHANGED <<browsers, last, closed, pluginVars, transferVars, webVars, shardOf, wlock, rlock, dirtied, delivered>>

\* one turn of the loop: if entry.key() != id { entry.value().set_focus(false) }
FocusVisit(t) ==
    /\ thr[t].pc = "focus_loop"
    /\ \E k \in thr[t].todo :
        /\ browsers' = IF k # thr[t].id /\ k \in DOMAIN browsers
                       THEN [browsers EXCEPT ![k] = Osr_set_focus(@, FALSE)]
                       ELSE browsers
        /\ thr' = [thr EXCEPT ![t].todo = @ \ {k},
                              ![t].pc = IF thr[t].todo = {k} THEN "focus_target"
                                        ELSE "focus_loop"]
    /\ UNCHANGED <<last, closed, pluginVars, transferVars, webVars, shardOf, wlock, rlock, dirtied, delivered>>

\* if let Some(browser) = self.browsers.get(id) { browser.set_focus(true)?; Ok(()) }
FocusTarget(t) ==
    /\ thr[t].pc = "focus_target"
    /\ IF thr[t].id \in DOMAIN browsers
       THEN /\ browsers' = [browsers EXCEPT ![thr[t].id] = Osr_set_focus(@, TRUE)]
            /\ thr' = [thr EXCEPT ![t].pc = "done", ![t].res = "ok"]
       ELSE /\ browsers' = browsers
            /\ thr' = [thr EXCEPT ![t].pc = "done", ![t].res = "NotFound"]
    /\ UNCHANGED <<last, closed, pluginVars, transferVars, webVars, shardOf, wlock, rlock, dirtied, delivered>>

NextFocus ==
    \/ \E t \in Threads, id \in Ids : FocusEnter(t, id)
    \/ \E t \in Threads : FocusVisit(t)
    \/ \E t \in Threads : FocusTarget(t)

SpecFocus == InitFocus /\ [][NextFocus]_vars

\* C1: when focus calls on distinct live ids run concurrently, then once all
\* of them have returned exactly one instance is focused.
C1_ConcurrentFocusExactlyOne ==
    ((\A t \in Threads : Returned(t) /\ thr[t].res = "ok")
     /\ \A t, u \in Threads : t # u => thr[t].id # thr[u].id)
    => Cardinality(Focused(browsers)) = 1

(***************************************************************************)
(* SpecPull: callers inside create_browser, update_bounds, get_frame and   *)
(* get_all_frames at the same time, and the backend painting.              *)
(*                                                                         *)
(* DashMap keeps its entries in shards, each behind a read-write lock:     *)
(* contains_key, get and iter hold the read lock of the key's shard,       *)
(* get_mut and insert its write lock; get and get_mut hold it for as long  *)
(* as the reference they return lives.  The locks inside an instance       *)
(* (bounds, frame_buffer) are each held for one statement, which is one    *)
(* step here.  The backend reaches the frame buffer through its own Arc    *)
(* and takes no shard lock.  One update_bounds counts as one dirtying      *)
(* event: no pull gets at the surface between its resize and its           *)
(* placeholder.                                                            *)
(***************************************************************************)
\* dirtying events after which no further update_bounds or paint is started
MaxEvents == 2

\* what the backend paints in SpecPull
PullPaints ==
    { p \in PaintInputs :
        \/ p.width = MinSize + ExtraSize
        \/ /\ LenAtLeast(p.buffer, ByteSize(p.width, p.height))
           /\ ~LenAtLeast(p.buffer, ByteSize(p.width, p.height) + 1) }

CanRead(s) == wlock[s] = NoThread
CanWrite(s) == wlock[s] = NoThread /\ rlock[s] = {}

\* a call returns: its caller is idle again and `last` holds what it returned
Return(t, op, id, res, out) ==
    /\ thr' = [thr EXCEPT ![t] = Idle]
    /\ last' = Call(op, id, NoUrl, NoBounds, NoPaint, res, out, <<>>)

\* the callers of SpecPull work on one instance id
PullIds == {"a"}

InitPull ==
    /\ browsers = EmptyMap
    /\ last = Call("new", NoId, NoUrl, NoBounds, NoPaint, "ok", <<>>, <<>>)
    /\ closed = {}
    /\ ConcInit

\* create_browser: if self.browsers.contains_key(id) { return Err(..) }
CreateExists(t, id) ==
    /\ CanCall(t)
    /\ CanRead(shardOf[id])
    /\ id \in DOMAIN browsers
    /\ Return(t, "create", id, "AlreadyExists", <<>>)
    /\ UNCHANGED <<browsers, closed, pluginVars, transferVars, webVars, shardOf, wlock, rlock, dirtied, delivered>>

\* create_browser: contains_key(id) is false
CreateCheck(t, id, url, bounds) ==
    /\ CanCall(t)
    /\ CanRead(shardOf[id])
    /\ id \notin DOMAIN browsers
    /\ thr' = [thr EXCEPT ![t] = [pc |-> "create_insert", op |-> "create", id |-> id,
                                  url |-> url, bounds |-> bounds]]
    /\ UNCHANGED <<browsers, last, closed, pluginVars, transferVars, webVars, shardOf, wlock, rlock, dirtied, delivered>>

\* create_browser: OsrBrowserInstance::new(..)?; self.browsers.insert(..); Ok(())
CreateInsert(t) ==
    /\ thr[t].pc = "create_insert"
    /\ CanWrite(shardOf[thr[t].id])
    /\ browsers' = MapInsert(browsers, thr[t].id,
                             Osr_new(thr[t].id, thr[t].url, thr[t].bounds))
    /\ dirtied' = [dirtied EXCEPT ![thr[t].id] = 1]
    /\ delivered' = [delivered EXCEPT ![thr[t].id] = 0]
    /\ Return(t, "create", thr[t].id, "ok", <<>>)
    /\ UNCHANGED <<closed, pluginVars, transferVars, webVars, shardOf, wlock, rlock>>

\* update_bounds: self.browsers.get_mut(id) is None
UpdateMissing(t, id) ==
    /\ CanCall(t)
    /\ CanWrite(shardOf[id])
    /\ id \notin DOMAIN browsers
    /\ Return(t, "update_bounds", id, "NotFound", <<>>)
    /\ UNCHANGED <<browsers, closed, pluginVars, transferVars, webVars, shardOf, wlock, rlock, dirtied, delivered>>

\* update_bounds: self.browsers.get_mut(id), then *self.bounds.write() = bounds
UpdateLock(t, id, bounds) ==
    /\ CanCall(t)
    /\ CanWrite(shardOf[id])
    /\ id \in DOMAIN browsers
    /\ dirtied[id] < MaxEvents
    /\ wlock' = [wlock EXCEPT ![shardOf[id]] = t]
    /\ browsers' = [browsers EXCEPT ![id] = Osr_write_bounds(@, bounds)]
    /\ thr' = [thr EXCEPT ![t] = [pc |-> "update_resize", op |-> "update_bounds",
                                  id |-> id, bounds |-> bounds]]
    /\ UNCHANGED <<last, closed, pluginVars, transferVars, webVars, shardOf, rlock, dirtied, delivered>>

\* update_bounds: self.frame_buffer.write().resize(width, height)
UpdateResize(t) ==
    /\ thr[t].pc = "update_resize"
    /\ browsers' = [browsers EXCEPT ![thr[t].id] = Osr_resize_buffer(@, thr[t].bounds)]
    /\ dirtied' = [dirtied EXCEPT ![thr[t].id] = @ + 1]
    /\ thr' = [thr EXCEPT ![t].pc = "update_placeholder"]
    /\ UNCHANGED <<last, closed, pluginVars, transferVars, webVars, shardOf, wlock, rlock, delivered>>

\* update_bounds: self.generate_placeholder_frame(); Ok(()), the RefMut dropped
UpdatePlaceholder(t) ==
    /\ thr[t].pc = "update_placeholder"
    /\ browsers' = [browsers EXCEPT ![thr[t].id] = generate_placeholder_frame(@)]
    /\ wlock' = [wlock EXCEPT ![shardOf[thr[t].id]] = NoThread]
    /\ Return(t, "update_bounds", thr[t].id, "ok", <<>>)
    /\ UNCHANGED <<closed, pluginVars, transferVars, webVars, shardOf, rlock, dirtied, delivered>>

\* get_frame: self.browsers.get(id) is None
GetFrameMissing(t, id) ==
    /\ CanCall(t)
    /\ CanRead(shardOf[id])
    /\ id \notin DOMAIN browsers
    /\ Return(t, "get_frame", id, "None", NoneOut)
    /\ UNCHANGED <<browsers, closed, pluginVars, transferVars, webVars, shardOf, wlock, rlock, dirtied, delivered>>

\* get_frame: self.browsers.get(id) is Some(b)
GetFrameLookup(t, id) ==
    /\ CanCall(t)
    /\ CanRead(shardOf[id])
    /\ id \in DOMAIN browsers
    /\ rlock' = [rlock EXCEPT ![shardOf[id]] = @ \cup {t}]
    /\ thr' = [thr EXCEPT ![t] = [pc |-> "get_frame_take", op |-> "get_frame", id |-> id]]
    /\ UNCHANGED <<browsers, last, closed, pluginVars, transferVars, webVars, shardOf, wlock, dirtied, delivered>>

\* get_frame: .and_then(|b| b.get_frame()), the Ref dropped
GetFrameTake(t) ==
    /\ thr[t].pc = "get_frame_take"
    /\ LET id == thr[t].id
           r == Osr_get_frame(browsers[id])
       IN  /\ browsers' = [browsers EXCEPT ![id] = r.inst]
           /\ delivered' = [delivered EXCEPT ![id] = @ + Len(r.out)]
           /\ rlock' = [rlock EXCEPT ![shardOf[id]] = @ \ {t}]
           /\ Return(t, "get_frame", id, IF r.out = NoneOut THEN "None" ELSE "Some", r.out)
    /\ UNCHANGED <<closed, pluginVars, transferVars, webVars, shardOf, wlock, dirtied>>

\* get_all_frames: self.browsers.iter()
GetAllEnter(t) ==
    /\ CanCall(t)
    /\ thr' = [thr EXCEPT ![t] = [pc |-> "get_all_shard", op |-> "get_all_frames",
                                  shard |-> 1, todo |-> {}, out |-> <<>>]]
    /\ UNCHANGED <<browsers, last, closed, pluginVars, transferVars, webVars, shardOf, wlock, rlock, dirtied, delivered>>

\* the iterator takes the read lock of its next shard
GetAllShard(t) ==
    /\ thr[t].pc = "get_all_shard"
    /\ thr[t].shard \in Shards
    /\ LET s == thr[t].shard
           keys == { k \in DOMAIN browsers : shardOf[k] = s }
       IN  /\ CanRead(s)
           /\ IF keys = {}
              THEN /\ thr' = [thr EXCEPT ![t].shard = s + 1]
                   /\ UNCHANGED rlock
              ELSE /\ thr' = [thr EXCEPT ![t].pc = "get_all_entry", ![t].todo = keys]
                   /\ rlock' = [rlock EXCEPT ![s] = @ \cup {t}]
    /\ UNCHANGED <<browsers, last, closed, pluginVars, transferVars, webVars, shardOf, wlock, dirtied, delivered>>

\* get_all_frames: filter_map(|entry| entry.value().get_frame()) on one entry
GetAllEntry(t) ==
    /\ thr[t].pc = "get_all_entry"
    /\ \E k \in thr[t].todo :
        LET r == Osr_get_frame(browsers[k])
            s == thr[t].shard
        IN  /\ browsers' = [browsers EXCEPT ![k] = r.inst]
            /\ delivered' = [delivered EXCEPT ![k] = @ + Len(r.out)]
            /\ IF thr[t].todo = {k}
               THEN /\ thr' = [thr EXCEPT ![t].pc = "get_all_shard", ![t].todo = {},
                                          ![t].shard = s + 1, ![t].out = @ \o r.out]
                    /\ rlock' = [rlock EXCEPT ![s] = @ \ {t}]
               ELSE /\ thr' = [thr EXCEPT ![t].todo = @ \ {k}, ![t].out = @ \o r.out]
                    /\ UNCHANGED rlock
    /\ UNCHANGED <<last, closed, pluginVars, transferVars, webVars, shardOf, wlock, dirtied>>

\* get_all_frames: the iterator is past the last shard, collect() returns
GetAllReturn(t) ==
    /\ thr[t].pc = "get_all_shard"
    /\ thr[t].shard \notin Shards
    /\ Return(t, "get_all_frames", NoId, "ok", thr[t].out)
    /\ UNCHANGED <<browsers, closed, pluginVars, transferVars, webVars, shardOf, wlock, rlock, dirtied, delivered>>

\* whether update(buffer, w, h) sets the dirty flag: it resizes, or it copies
PaintDirties(fb, p) ==
    \/ fb.width # p.width \/ fb.height # p.height
    \/ LenAtLeast(p.buffer, ByteSize(p.width, p.height))

\* on_paint: self.frame_buffer.write().update(buffer_slice, width, height)
BackendPaint(id, p) ==
    /\ id \in DOMAIN browsers
    /\ dirtied[id] < MaxEvents
    /\ browsers' = [browsers EXCEPT ![id] = Osr_on_paint(@, p)]
    /\ dirtied' = [dirtied EXCEPT ![id] = IF PaintDirties(browsers[id].frame_buffer, p)
                                          THEN @ + 1 ELSE @]
    /\ UNCHANGED <<last, closed, pluginVars, transferVars, webVars, thr, shardOf, wlock, rlock, delivered>>

NextPull ==
    \/ \E t \in Threads, id \in PullIds : CreateExists(t, id)
    \/ \E t \in Threads, id \in PullIds, url \in Urls, b \in BoundsInputs :
        CreateCheck(t, id, url, b)
    \/ \E t \in Threads : CreateInsert(t)
    \/ \E t \in Threads, id \in PullIds : UpdateMissing(t, id)
    \/ \E t \in Threads, id \in PullIds, b \in BoundsInputs : UpdateLock(t, id, b)
    \/ \E t \in Threads : UpdateResize(t)
    \/ \E t \in Threads : UpdatePlaceholder(t)
    \/ \E t \in Threads, id \in PullIds : GetFrameMissing(t, id)
    \/ \E t \in Threads, id \in PullIds : GetFrameLookup(t, id)
    \/ \E t \in Threads : GetFrameTake(t)
    \/ \E t \in Threads : GetAllEnter(t)
    \/ \E t \in Threads : GetAllShard(t)
    \/ \E t \in Threads : GetAllEntry(t)
    \/ \E t \in Threads : GetAllReturn(t)
    \/ \E id \in PullIds, p \in PullPaints : BackendPaint(id, p)

SpecPull == InitPull /\ [][NextPull]_vars

(***************************************************************************)
(* Properties of SpecPull                                                  *)
(***************************************************************************)
\* C8: however pulls, backend paints and update_bounds interleave, the frames
\* handed out for an instance never outnumber the events that dirtied it: no
\* painted frame is returned by two pulls.
C8_AtMostOncePerDirtying ==
    \A id \in Ids : delivered[id] <= dirtied[id]

\* a get_all_frames has just returned the only undelivered frame while a
\* get_frame on the same instance is between its lookup and its take
C8_Witness ==
    /\ last.op = "get_all_frames" /\ last.out # <<>>
    /\ \E t \in Threads : thr[t].pc = "get_frame_take" /\ thr[t].id = last.out[1].browser_id
    /\ dirtied["a"] >= 2
    /\ delivered["a"] = dirtied["a"]

\* len(data) = width * height * 4, the product taken in the integers
FrameSized(f) ==
    /\ DataLen(f.data) % BytesPerPixel = 0
    /\ DataLen(f.data) \div BytesPerPixel = f.width * f.height

\* C9: in every reachable state, however create, update_bounds, paints and
\* pulls interleave, the data of each surface is width*height*4 bytes long, and
\* so is the data of every frame a pull has collected or returned.  It fails:
\* for 32768 x 32768 the u32 byte size wraps to 0 and the data is empty.
C9_BufferLength ==
    /\ \A id \in DOMAIN browsers : FrameSized(browsers[id].frame_buffer)
    /\ \A i \in 1..Len(last.out) : FrameSized(last.out[i])
    /\ \A t \in Threads :
        thr[t].pc \in {"get_all_shard", "get_all_entry"}
        => \A i \in 1..Len(thr[t].out) : FrameSized(thr[t].out[i])

(***************************************************************************)
(* Properties of Spec: surface writes, first frame, batch pull, forwarding *)
(***************************************************************************)
\* C11: a write that supplies fewer than w*h*4 bytes leaves the surface as it
\* was (content, width, height, dirty), also when (w, h) is not the surface's
\* size.  It fails: update resizes before it looks at the buffer's length.
C11_ShortWriteRejected ==
    [][(/\ last'.op = "on_paint"
        /\ ~LenAtLeast(last'.paint.buffer,
                       ByteSize(last'.paint.width, last'.paint.height)))
       => browsers' = browsers]_vars

\* every byte of the vector is zero: painted bytes are 1, and a gradient run
\* holds the alpha bytes 255
AllZero(d) == \A k \in 1..Len(d) : d[k].n = 0 \/ d[k].c = Zero

\* C12: after resize(w, h), whatever the surface held, the buffer has w*h*4
\* bytes, all of them zero, and dirty is true.  It fails: Vec::resize keeps
\* the bytes it already had.
C12_ResizeZeroFills ==
    \A id \in Live, s \in PaintSizes :
        LET fb == FrameBuffer_resize(Surface(id), s[1], s[2])
        IN  /\ DataLen(fb.data) = s[1] * s[2] * BytesPerPixel
            /\ AllZero(fb.data)
            /\ fb.dirty

\* C13: right after a successful create the instance is listed as loading, and
\* get_frame returns a frame of the clamped creation size whose data is the
\* whole buffer, every byte of it written by the placeholder.
C13_FirstFrameAfterCreate ==
    (last.op = "create" /\ last.res = "ok")
    => LET id == last.id
           w == Max(last.bounds.width, MinSize)
           h == Max(last.bounds.height, MinSize)
           out == get_frame(browsers, id).out
       IN  /\ \A o \in Orders(Live) :
                \E i \in 1..Len(o) :
                    LET info == list_browsers(browsers, o)[i]
                    IN  info.id = id /\ info.is_loading
           /\ out # NoneOut
           /\ out[1].width = w /\ out[1].height = h
           /\ out[1].data = Surface(id).data
           /\ \A k \in 1..Len(out[1].data) : out[1].data[k].c = Grad(w, h)

C13_Witness ==
    /\ last.op = "create" /\ last.res = "ok"
    /\ last.bounds.width > MinSize /\ last.bounds.height < MinSize
    /\ Cardinality(Live) = 2
    /\ Surface(last.id).data # <<>>

Dirty(m) == { id \in DOMAIN m : m[id].frame_buffer.dirty }

\* C14: get_all_frames returns one frame for each live instance whose surface
\* is dirty and none for a clean one, the frames get_frame would return; after
\* it every surface is clean and a repeated get_all_frames returns nothing.
C14_GetAllFrames ==
    [][last'.op = "get_all_frames"
       => /\ Len(last'.out) = Cardinality(Dirty(browsers))
          /\ { last'.out[i] : i \in 1..Len(last'.out) }
               = { get_frame(browsers, id).out[1] : id \in Dirty(browsers) }
          /\ DOMAIN browsers' = DOMAIN browsers
          /\ \A id \in DOMAIN browsers : browsers'[id] = get_frame(browsers, id).m[id]
          /\ Dirty(browsers') = {}
          /\ \A o \in Orders(DOMAIN browsers') : get_all_frames(browsers', o).out = <<>>]_vars

C14_Witness ==
    /\ last.op = "get_all_frames"
    /\ Len(last.out) = 1
    /\ Cardinality(Live) = 2

\* C20: navigate, send_mouse_event and send_key_event on a live id return Ok
\* and change nothing: not the live ids, nor any instance's bounds, surface,
\* dirty, loading or focus flag.
C20_PureForwarding ==
    [][(/\ last'.op \in {"navigate", "send_mouse_event", "send_key_event"}
        /\ last'.id \in DOMAIN browsers)
       => last'.res = "ok" /\ browsers' = browsers]_vars

C20_Witness ==
    /\ last.op = "navigate" /\ last.res = "ok"
    /\ browsers[last.id].is_focused
    /\ get_frame(browsers, last.id).out = NoneOut

(***************************************************************************)
(* transfer.rs: bgra_to_rgba                                               *)
(***************************************************************************)
\* the bytes of the unit test
Bytes == {0, 128, 255}
\* the longest slice converted
MaxPixelBytes == 8

ByteSeqs == UNION { [1..n -> Bytes] : n \in 0..MaxPixelBytes }

\* each chunk rotated, B G R A to G R B A
RECURSIVE bgra_to_rgba_rotates(_)
bgra_to_rgba_rotates(data) ==
    IF Len(data) < 4 THEN data
    ELSE <<data[2], data[3], data[1], data[4]>>
         \o bgra_to_rgba_rotates(SubSeq(data, 5, Len(data)))

\* for chunk in data.chunks_exact_mut(4) { chunk.swap(0, 2) }: a remainder
\* shorter than 4 bytes is not a chunk
RECURSIVE bgra_to_rgba(_)
bgra_to_rgba(data) ==
    IF Len(data) < 4 THEN data
    ELSE <<data[3], data[2], data[1], data[4]>>
         \o bgra_to_rgba(SubSeq(data, 5, Len(data)))

\* the registry, its callers and the plugin left alone
RegistryUnused ==
    /\ browsers = EmptyMap
    /\ closed = {}
    /\ CallersIdle
    /\ PluginReady
    /\ WebTabsUnused

registryVars ==
    <<browsers, closed, thr, shardOf, wlock, rlock, dirtied, delivered, pluginVars, webVars>>

InitSwap ==
    /\ RegistryUnused
    /\ last = [op |-> "none"]
    /\ pixels \in ByteSeqs
    /\ rects = <<>>
    /\ batch = <<>>
    /\ added = <<>>

\* bgra_to_rgba(&mut data): the slice is converted in place
BgraToRgba ==
    /\ pixels' = bgra_to_rgba(pixels)
    /\ last' = [op |-> "bgra_to_rgba", data |-> pixels]
    /\ UNCHANGED <<registryVars, rects, batch, added>>

NextSwap == BgraToRgba

SpecSwap == InitSwap /\ [][NextSwap]_vars

\* C15: for a buffer whose length is a multiple of 4, the conversion swaps
\* bytes 0 and 2 of each pixel and leaves bytes 1 and 3 and the length as they
\* were, so converting twice gives the original buffer back.
C15_SwapChannels ==
    (last.op = "bgra_to_rgba" /\ Len(last.data) % 4 = 0)
    => /\ Len(pixels) = Len(last.data)
       /\ \A i \in 1..Len(pixels) :
            pixels[i] = IF i % 4 = 1 THEN last.data[i + 2]
                        ELSE IF i % 4 = 3 THEN last.data[i - 2]
                        ELSE last.data[i]
       /\ bgra_to_rgba(pixels) = last.data

\* the unit test: [0,128,255,255] has become [255,128,0,255]
C15_Witness ==
    /\ last.op = "bgra_to_rgba"
    /\ last.data = <<0, 128, 255, 255>>
    /\ pixels = <<255, 128, 0, 255>>

(***************************************************************************)
(* transfer.rs: DirtyRect::merge.  A u32 is a pair <<hi, lo>> of 16-bit    *)
(* halves, so that sums beyond 2^32 - 1 can be told from wrapped ones.     *)
(***************************************************************************)
Limb == 65536
U32(n) == <<0, n>>
U32Max == <<Limb - 1, Limb - 1>>

\* the sum in the integers: the high half may exceed 16 bits
Sum(a, b) == <<a[1] + b[1] + ((a[2] + b[2]) \div Limb), (a[2] + b[2]) % Limb>>
\* a + b in u32, wrapping
U32Add(a, b) == <<Sum(a, b)[1] % Limb, Sum(a, b)[2]>>
\* a - b in u32, wrapping
U32Sub(a, b) ==
    LET borrow == IF a[2] < b[2] THEN 1 ELSE 0
    IN  <<(a[1] - b[1] - borrow + Limb) % Limb, (a[2] - b[2] + Limb) % Limb>>
Leq(a, b) == a[1] < b[1] \/ (a[1] = b[1] /\ a[2] <= b[2])
Least(a, b) == IF Leq(a, b) THEN a ELSE b
Greatest(a, b) == IF Leq(a, b) THEN b ELSE a

DirtyRect(x, y, w, h) == [x |-> x, y |-> y, width |-> w, height |-> h]
NoRect == <<>>

\* origins and extents of the rectangles merged: those of the unit test, the
\* smallest extent and the largest origin
Origins == {U32(0), U32(50), U32Max}
Extents == {U32(1), U32(100)}
RectInputs == { DirtyRect(x, y, w, h) : x, y \in Origins, w, h \in Extents }

merge(self, other) ==
    LET x == Least(self.x, other.x)
        y == Least(self.y, other.y)
        right == Greatest(U32Add(self.x, self.width), U32Add(other.x, other.width))
        bottom == Greatest(U32Add(self.y, self.height), U32Add(other.y, other.height))
    IN  DirtyRect(x, y, U32Sub(right, x), U32Sub(bottom, y))

InitMerge ==
    /\ RegistryUnused
    /\ last = [op |-> "none"]
    /\ pixels = <<>>
    /\ rects \in { [a |-> a, b |-> b, merged |-> NoRect] : a, b \in RectInputs }
    /\ batch = <<>>
    /\ added = <<>>

\* let merged = a.merge(&b)
Merge ==
    /\ rects.merged = NoRect
    /\ rects' = [rects EXCEPT !.merged = merge(rects.a, rects.b)]
    /\ last' = [op |-> "merge"]
    /\ UNCHANGED <<registryVars, pixels, batch, added>>

NextMerge == Merge

SpecMerge == InitMerge /\ [][NextMerge]_vars

\* C16: merge(a, b) is the smallest rectangle that contains a and b: its x and
\* y are the smaller origins and its right and bottom edges the larger right
\* and bottom edges.  It fails when x + width or y + height exceeds 2^32 - 1:
\* the edge wraps.
C16_MergeCovers ==
    rects # <<>> /\ rects.merged # NoRect
    => LET a == rects.a
           b == rects.b
           m == rects.merged
       IN  /\ m.x = Least(a.x, b.x)
           /\ m.y = Least(a.y, b.y)
           /\ Sum(m.x, m.width) = Greatest(Sum(a.x, a.width), Sum(b.x, b.width))
           /\ Sum(m.y, m.height) = Greatest(Sum(a.y, a.height), Sum(b.y, b.height))

(***************************************************************************)
(* transfer.rs: FrameBatch                                                 *)
(***************************************************************************)
\* the most frames added to one batch
MaxBatch == 3

\* FrameData values: two sizes of zeroed data and one frame without data
BatchFrames ==
    { Frame(id, FrameBuffer_new(s[1], s[2])) :
        id \in Ids, s \in PaintSizes \cup {<<32768, 32768>>} }

FrameBatch_new == [frames |-> <<>>, total_bytes |-> 0]

\* add that puts the frame in front
FrameBatch_add_front(b, frame) ==
    [frames |-> <<frame>> \o b.frames,
     total_bytes |-> b.total_bytes + DataLen(frame.data)]

FrameBatch_add(b, frame) ==
    [frames |-> Append(b.frames, frame),
     total_bytes |-> b.total_bytes + DataLen(frame.data)]

FrameBatch_is_empty(b) == b.frames = <<>>

InitBatch ==
    /\ RegistryUnused
    /\ last = [op |-> "new"]
    /\ pixels = <<>>
    /\ rects = <<>>
    /\ batch = FrameBatch_new
    /\ added = <<>>

BatchAdd(frame) ==
    /\ Len(added) < MaxBatch
    /\ batch' = FrameBatch_add(batch, frame)
    /\ added' = Append(added, frame)
    /\ last' = [op |-> "add"]
    /\ UNCHANGED <<registryVars, pixels, rects>>

NextBatch == \E frame \in BatchFrames : BatchAdd(frame)

SpecBatch == InitBatch /\ [][NextBatch]_vars

RECURSIVE TotalLen(_)
TotalLen(fs) == IF fs = <<>> THEN 0 ELSE DataLen(Head(fs).data) + TotalLen(Tail(fs))

\* C17: after any sequence of add calls on a new batch, total_bytes is the sum
\* of the data lengths of the frames held, the frames are in the order they
\* were added, and is_empty is true exactly when nothing has been added.
C17_BatchTotals ==
    /\ batch.total_bytes = TotalLen(batch.frames)
    /\ batch.frames = added
    /\ FrameBatch_is_empty(batch) <=> added = <<>>

C17_Witness ==
    /\ Len(added) >= 2
    /\ added[1] # added[2]
    /\ DataLen(added[1].data) > DataLen(added[2].data)
    /\ ~FrameBatch_is_empty(batch)

(***************************************************************************)
(* SpecPlugin: the commands of lib.rs run by concurrent callers.  A step   *)
(* is what a command does between two lock acquisitions: the RwLocks of    *)
(* CefPluginState are parking_lot locks, a caller that cannot take one     *)
(* waits.  A command holds manager.read() while it runs the BrowserManager *)
(* method, taken here as one step.                                         *)
(***************************************************************************)
NotInitialized == "CEF not initialized"
CommandOps ==
    {"create", "close", "update_bounds", "navigate", "get_frame", "get_all_frames",
     "send_mouse_event", "send_key_event", "focus", "list"}
\* the bounds the commands of SpecPlugin pass
PluginBounds == { b \in BoundsInputs : b.width < 0 }

\* BrowserManager::shutdown that keeps the instances
shutdown_keeps(m) == m

\* BrowserManager::shutdown: every browser closed, the map cleared
shutdown(m) == EmptyMap

\* the BrowserManager method behind a command, on the map m iterated in order o
RunCommand(m, c, o) ==
    LET none == [m |-> m, res |-> "ok", out |-> <<>>, infos |-> <<>>]
    IN  CASE c.op = "create" ->
               LET r == create_browser(m, c.id, c.url, c.bounds)
               IN  [none EXCEPT !.m = r.m, !.res = r.res,
                        !.infos = IF r.res = "ok"
                                  THEN <<[id |-> c.id, url |-> c.url,
                                          bounds |-> c.bounds, is_loading |-> TRUE]>>
                                  ELSE <<>>]
          [] c.op = "close" ->
               LET r == close_browser(m, c.id) IN [none EXCEPT !.m = r.m, !.res = r.res]
          [] c.op = "update_bounds" ->
               LET r == update_bounds(m, c.id, c.bounds)
               IN  [none EXCEPT !.m = r.m, !.res = r.res]
          [] c.op = "navigate" ->
               LET r == navigate(m, c.id, c.url) IN [none EXCEPT !.m = r.m, !.res = r.res]
          [] c.op = "get_frame" ->
               LET r == get_frame(m, c.id) IN [none EXCEPT !.m = r.m, !.out = r.out]
          [] c.op = "get_all_frames" ->
               LET r == get_all_frames(m, o) IN [none EXCEPT !.m = r.m, !.out = r.out]
          [] c.op = "send_mouse_event" ->
               LET r == send_mouse_event(m, c.id) IN [none EXCEPT !.m = r.m, !.res = r.res]
          [] c.op = "send_key_event" ->
               LET r == send_key_event(m, c.id) IN [none EXCEPT !.m = r.m, !.res = r.res]
          [] c.op = "focus" ->
               LET r == focus_browser(m, c.id) IN [none EXCEPT !.m = r.m, !.res = r.res]
          [] c.op = "list" -> [none EXCEPT !.infos = list_browsers(m, o)]

\* CefPluginState::default(): no manager, not initialized
InitPlugin ==
    /\ browsers = EmptyMap
    /\ last = Call("default", NoId, NoUrl, NoBounds, NoPaint, "ok", <<>>, <<>>)
    /\ closed = {}
    /\ CallersIdle
    /\ manager = FALSE
    /\ initialized = FALSE
    /\ mgrLock = FreeLock
    /\ initLock = FreeLock
    /\ TransferIdle
    /\ WebTabsUnused

pluginRest == <<closed, shardOf, wlock, rlock, dirtied, delivered, transferVars, webVars>>

PluginReturn(t, c, res, out, infos) ==
    /\ thr' = [thr EXCEPT ![t] = Idle]
    /\ last' = Call(c.op, c.id, c.url, c.bounds, NoPaint, res, out, infos)

InitCall == [op |-> "init", id |-> NoId, url |-> NoUrl, bounds |-> NoBounds]
ShutdownCall == [op |-> "shutdown", id |-> NoId, url |-> NoUrl, bounds |-> NoBounds]

\* cef_init that installs a fresh manager also when the flag is already set
CefInitLock_reinstalls(t) ==
    /\ thr[t] = Idle
    /\ initLock.w = NoThread
    /\ IF initialized
       THEN /\ PluginReturn(t, InitCall, "ok", <<>>, <<>>)
            /\ browsers' = EmptyMap
            /\ UNCHANGED initLock
       ELSE /\ thr' = [thr EXCEPT ![t] = [pc |-> "init_manager"]]
            /\ initLock' = [initLock EXCEPT !.w = t]
            /\ UNCHANGED <<last, browsers>>
    /\ UNCHANGED <<manager, initialized, mgrLock, pluginRest>>

\* cef_init: initialized.write(); return Ok(()) when the flag is already set
CefInitLock(t) ==
    /\ thr[t] = Idle
    /\ initLock.w = NoThread
    /\ IF initialized
       THEN /\ PluginReturn(t, InitCall, "ok", <<>>, <<>>)
            /\ UNCHANGED initLock
       ELSE /\ thr' = [thr EXCEPT ![t] = [pc |-> "init_manager"]]
            /\ initLock' = [initLock EXCEPT !.w = t]
            /\ UNCHANGED last
    /\ UNCHANGED <<browsers, manager, initialized, mgrLock, pluginRest>>

\* cef_init: *state.manager.write() = Some(BrowserManager::new()), the
\* initialized guard still held
CefInitManager(t) ==
    /\ thr[t].pc = "init_manager"
    /\ mgrLock = FreeLock
    /\ manager' = TRUE
    /\ browsers' = EmptyMap
    /\ thr' = [thr EXCEPT ![t] = [pc |-> "init_flag"]]
    /\ UNCHANGED <<last, initialized, mgrLock, initLock, pluginRest>>

\* cef_init: *initialized = true, the guard dropped on return
CefInitFlag(t) ==
    /\ thr[t].pc = "init_flag"
    /\ initialized' = TRUE
    /\ initLock' = FreeLock
    /\ PluginReturn(t, InitCall, "ok", <<>>, <<>>)
    /\ UNCHANGED <<browsers, manager, mgrLock, pluginRest>>

\* cef_shutdown: state.manager.write(), manager.take(), m.shutdown()
CefShutdownLock(t) ==
    /\ thr[t] = Idle
    /\ mgrLock = FreeLock
    /\ mgrLock' = [mgrLock EXCEPT !.w = t]
    /\ manager' = FALSE
    /\ browsers' = IF manager THEN shutdown(browsers) ELSE browsers
    /\ closed' = closed \cup DOMAIN browsers
    /\ thr' = [thr EXCEPT ![t] = [pc |-> "shutdown_flag"]]
    /\ UNCHANGED <<last, initialized, initLock, shardOf, wlock, rlock, dirtied,
                   delivered, transferVars, webVars>>

\* cef_shutdown that leaves the initialized flag as it was
CefShutdownFlag_keeps(t) ==
    /\ thr[t].pc = "shutdown_flag"
    /\ initLock.w = NoThread
    /\ mgrLock' = FreeLock
    /\ PluginReturn(t, ShutdownCall, "ok", <<>>, <<>>)
    /\ UNCHANGED <<browsers, manager, initialized, initLock, pluginRest>>

\* cef_shutdown: *state.initialized.write() = false, the manager guard
\* dropped on return
CefShutdownFlag(t) ==
    /\ thr[t].pc = "shutdown_flag"
    /\ initLock.w = NoThread
    /\ initialized' = FALSE
    /\ mgrLock' = FreeLock
    /\ PluginReturn(t, ShutdownCall, "ok", <<>>, <<>>)
    /\ UNCHANGED <<browsers, manager, initLock, pluginRest>>

\* a command: state.manager.read(), then as_ref().ok_or("CEF not initialized")?
CommandEnter(t, op, id, url, bounds) ==
    LET c == [op |-> op, id |-> id, url |-> url, bounds |-> bounds]
    IN  /\ thr[t] = Idle
        /\ mgrLock.w = NoThread
        /\ IF manager
           THEN /\ thr' = [thr EXCEPT ![t] = [pc |-> "command"] @@ c]
                /\ mgrLock' = [mgrLock EXCEPT !.r = @ \cup {t}]
                /\ UNCHANGED last
           ELSE /\ PluginReturn(t, c, NotInitialized, <<>>, <<>>)
                /\ UNCHANGED mgrLock
        /\ UNCHANGED <<browsers, manager, initialized, initLock, pluginRest>>

\* a command: the BrowserManager method, the read guard dropped on return
CommandRun(t) ==
    /\ thr[t].pc = "command"
    /\ \E o \in Orders(DOMAIN browsers) :
        LET r == RunCommand(browsers, thr[t], o)
        IN  /\ browsers' = r.m
            /\ closed' = IF thr[t].op = "create" /\ r.res = "ok" THEN closed \ {thr[t].id}
                         ELSE IF thr[t].op = "close" /\ r.res = "ok"
                              THEN closed \cup {thr[t].id}
                              ELSE closed
            /\ PluginReturn(t, thr[t],
                            IF thr[t].op = "get_frame"
                            THEN (IF r.out = NoneOut THEN "None" ELSE "Some")
                            ELSE r.res,
                            r.out, r.infos)
    /\ mgrLock' = [mgrLock EXCEPT !.r = @ \ {t}]
    /\ UNCHANGED <<manager, initialized, initLock, shardOf, wlock, rlock, dirtied,
                   delivered, transferVars, webVars>>

NextPlugin ==
    \/ \E t \in Threads : CefInitLock(t)
    \/ \E t \in Threads : CefInitManager(t)
    \/ \E t \in Threads : CefInitFlag(t)
    \/ \E t \in Threads : CefShutdownLock(t)
    \/ \E t \in Threads : CefShutdownFlag(t)
    \/ \E t \in Threads, id \in Ids, b \in PluginBounds :
        \/ CommandEnter(t, "create", id, "u1", b)
        \/ CommandEnter(t, "update_bounds", id, NoUrl, b)
    \/ \E t \in Threads, id \in Ids :
        \/ CommandEnter(t, "navigate", id, "u1", NoBounds)
        \/ \E op \in {"close", "get_frame", "send_mouse_event", "send_key_event", "focus"} :
            CommandEnter(t, op, id, NoUrl, NoBounds)
    \/ \E t \in Threads, op \in {"get_all_frames", "list"} :
        CommandEnter(t, op, NoId, NoUrl, NoBounds)
    \/ \E t \in Threads : CommandRun(t)

SpecPlugin == InitPlugin /\ [][NextPlugin]_vars

(***************************************************************************)
(* Properties of SpecPlugin                                                *)
(***************************************************************************)
\* C18: shutdown releases all instances.  When it returns there is no manager
\* and no instance; while there is no manager no command runs and every
\* command that returns reports "CEF not initialized" and changes nothing;
\* the manager a following init installs is empty: list returns an empty list
\* and every id can be created.
C18_ShutdownReleasesAll ==
    /\ [](~manager => /\ browsers = EmptyMap
                      /\ \A t \in Threads : thr[t].pc # "command")
    /\ [][(\E t \in Threads : thr[t].pc = "shutdown_flag" /\ thr'[t] = Idle)
          => ~manager' /\ ~initialized' /\ browsers' = EmptyMap]_vars
    /\ [][(~manager /\ last' # last /\ last'.op \in CommandOps)
          => last'.res = NotInitialized /\ browsers' = browsers]_vars
    /\ [][(~manager /\ manager')
          => /\ RunCommand(browsers', [op |-> "list"], <<>>).infos = <<>>
             /\ \A id \in Ids, b \in BoundsInputs :
                    create_browser(browsers', id, "u1", b).res = "ok"]_vars

\* a shutdown has taken the manager and cleared the map right after a create
\* had succeeded: the instance created last is gone
C18_Witness ==
    /\ \E t \in Threads : thr[t].pc = "shutdown_flag"
    /\ last.op = "create" /\ last.res = "ok"
    /\ last.id \in closed
    /\ ~manager
    /\ browsers = EmptyMap

\* the lock a caller waits for, and the locks it holds
Wants(t) ==
    IF thr[t].pc = "init_manager" THEN "manager"
    ELSE IF thr[t].pc = "shutdown_flag" THEN "initialized"
    ELSE "none"
Holds(t, l) ==
    IF l = "manager" THEN mgrLock.w = t \/ t \in mgrLock.r
    ELSE l = "initialized" /\ initLock.w = t

\* C19: no reachable state is a deadlock in which commands wait on each
\* other's locks.  It fails: cef_init takes initialized then manager,
\* cef_shutdown takes manager then initialized.
C19_NoDeadlock ==
    ~ \E t, u \in Threads :
        /\ t # u
        /\ Holds(u, Wants(t))
        /\ Holds(t, Wants(u))

(***************************************************************************)
(* Properties of Spec: bounds, writes, url, failed focus, byte size        *)
(***************************************************************************)
\* C21: in every state another operation can observe, each live instance's
\* surface is max(bounds.width,100) by max(bounds.height,100) for the bounds
\* stored.  It fails: a paint of another size resizes the surface and leaves
\* the bounds.
C21_SurfaceMatchesBounds ==
    \A id \in Live :
        /\ Surface(id).width = Max(browsers[id].bounds.width, MinSize)
        /\ Surface(id).height = Max(browsers[id].bounds.height, MinSize)

\* C22: the bounds list reports for an instance are clamped: width and height
\* are at least 100.  It fails: the bounds are stored as they were passed.
C22_ListedBoundsClamped ==
    last.op = "list"
    => \A i \in 1..Len(last.infos) :
        /\ last.infos[i].bounds.width >= MinSize
        /\ last.infos[i].bounds.height >= MinSize

\* the length of a byte vector and the product w*h*4, in the integers, as
\* pairs <<high, low>> of base-65536 digits
RECURSIVE WideLen(_)
WideLen(d) ==
    IF d = <<>> THEN <<0, 0>>
    ELSE Sum(<<Head(d).n \div Limb, Head(d).n % Limb>>, WideLen(Tail(d)))
WideSize(w, h) ==
    <<(w * h) \div (Limb \div BytesPerPixel),
      ((w * h) % (Limb \div BytesPerPixel)) * BytesPerPixel>>
\* the first w*h*4 bytes of a vector at least that long: the runs beyond the
\* product are dropped and the run that crosses it is cut
RECURSIVE Prefix(_, _, _)
Prefix(d, w, h) ==
    LET front == SubSeq(d, 1, Len(d) - 1)
        size == WideSize(w, h)
        have == WideLen(front)
    IN  IF d = <<>> THEN <<>>
        ELSE IF Leq(size, have) THEN Prefix(front, w, h)
        ELSE front \o <<Run((size[1] - have[1]) * Limb + size[2] - have[2],
                            d[Len(d)].c)>>

\* C23: a write of at least w*h*4 bytes succeeds: the surface is then w by h,
\* its data is the first w*h*4 bytes of the input, dirty is true, and the next
\* pull returns those bytes.  It fails for a frame of 2^32 bytes: the size is
\* computed in u32 and wraps, C29's overflow.
C23_FullWriteAdopted ==
    [][(/\ last'.op = "on_paint"
        /\ Leq(WideSize(last'.paint.width, last'.paint.height),
               WideLen(last'.paint.buffer)))
       => LET p == last'.paint
              fb == browsers'[last'.id].frame_buffer
              out == get_frame(browsers', last'.id).out
              bytes == Norm(Prefix(p.buffer, p.width, p.height))
          IN  /\ fb.width = p.width /\ fb.height = p.height
              /\ fb.data = bytes
              /\ fb.dirty
              /\ out # NoneOut
              /\ out[1].data = bytes
              /\ out[1].width = p.width /\ out[1].height = p.height]_vars

\* C24: after a successful navigate(id, url) the url of the instance, which
\* list reports, is that url.  It fails: navigate only logs.
C24_NavigateSetsUrl ==
    [][(last'.op = "navigate" /\ last'.res = "ok")
       => Osr_get_info(browsers'[last'.id]).url = last'.url]_vars

\* C26: a focus call that returns NotFound leaves every focus flag as it was.
\* It fails: the unfocus sweep runs before the target is looked up.
C26_FailedFocusChangesNothing ==
    [][(last'.op = "focus" /\ last'.res = "NotFound")
       => Focused(browsers') = Focused(browsers)]_vars

\* C29: for every bounds value create and update_bounds accept, the buffer
\* allocated has max(w,100) * max(h,100) * 4 bytes, the product taken in the
\* integers.  It fails: the product is taken in u32 and wraps.
C29_ByteSizeExact ==
    [][(last'.op \in {"create", "update_bounds"} /\ last'.res = "ok")
       => LET len == DataLen(browsers'[last'.id].frame_buffer.data)
          IN  /\ len % BytesPerPixel = 0
              /\ len \div BytesPerPixel
                   = Max(last'.bounds.width, MinSize) * Max(last'.bounds.height, MinSize)]_vars

(***************************************************************************)
(* Properties of SpecPull: concurrent create                               *)
(***************************************************************************)
\* C25: of two concurrent create calls with the same id one returns Ok and the
\* other AlreadyExists: a create that returns Ok never puts its instance in
\* the place of one already registered.  It fails: contains_key and insert are
\* two steps.
C25_CreateNeverReplaces ==
    [][\A t \in Threads :
        (thr[t].pc = "create_insert" /\ thr'[t] = Idle)
        => thr[t].id \notin DOMAIN browsers]_vars

(***************************************************************************)
(* Properties of SpecPlugin: the initialized flag                          *)
(***************************************************************************)
\* no cef_init has taken the initialized lock without having returned
NoInitRunning == \A t \in Threads : thr[t].pc \notin {"init_manager", "init_flag"}
\* no cef_shutdown has taken the manager without having returned
NoShutdownRunning == \A t \in Threads : thr[t].pc # "shutdown_flag"

\* C27: while the plugin is not initialised (the flag is false and no init is
\* running) there is no manager and no instance, no command is inside the
\* manager, and every command that returns reports "CEF not initialized" and
\* changes nothing; and whenever neither init nor shutdown is running the
\* flag is true exactly when a manager is present.
C27_NotInitialized ==
    /\ []((~initialized /\ NoInitRunning)
          => /\ ~manager
             /\ browsers = EmptyMap
             /\ \A t \in Threads : thr[t].pc # "command")
    /\ [][(~initialized /\ NoInitRunning /\ last' # last /\ last'.op \in CommandOps)
          => /\ last'.res = NotInitialized
             /\ last'.out = <<>> /\ last'.infos = <<>>
             /\ browsers' = browsers
             /\ manager' = manager /\ initialized' = initialized]_vars
    /\ []((NoInitRunning /\ NoShutdownRunning) => (initialized <=> manager))

\* after an init, a create and a shutdown have all returned, a command has
\* been refused: nobody is inside a call, the flag is false and the manager
\* is gone
C27_Witness ==
    /\ \A t \in Threads : thr[t] = Idle
    /\ ~initialized /\ ~manager
    /\ closed # {}
    /\ last.op = "create"
    /\ last.res = NotInitialized

\* C28: an init called while the flag is set returns ok and keeps the manager
\* and every instance as it was: the map, with each instance's bounds,
\* surface, dirty and focus state, is the same before and after the call.
C28_InitIdempotent ==
    [][\A t \in Threads :
        (initialized /\ thr[t] = Idle /\ initLock.w = NoThread
           /\ last' # last /\ last'.op = "init")
        => /\ last'.res = "ok"
           /\ browsers' = browsers
           /\ manager' = manager
           /\ initialized']_vars

\* an init has returned with the flag set and nobody inside a call, and the
\* manager holds a focused instance
C28_Witness ==
    /\ last.op = "init" /\ last.res = "ok"
    /\ \A t \in Threads : thr[t] = Idle
    /\ initialized /\ manager
    /\ Focused(browsers) # {}

(***************************************************************************)
(* SpecWebTab: the native web-tab layer of src-tauri/src/lib.rs.  A window *)
(* is in windows from the return of build() to the return of close().      *)
(***************************************************************************)
WebTabPrefix == "webtab-"
TabIds == {Label(WebTabPrefix, "1"), Label(WebTabPrefix, "2")}
NoTab == Label("", "")
\* the urls create_web_tab is given: one that parses and one that does not
TabUrls == {"u1", "not a url"}
\* url.parse(): whether the url parses
UrlParses(url) == url = "u1"
\* window_label.starts_with("webtab-")
StartsWithWebtab(label) == label[1] = WebTabPrefix

\* the thread spawned in setup, besides the callers of commands
SetupThread == "setup"
WebThreads == Threads \cup {SetupThread}

InitWebTab ==
    /\ browsers = EmptyMap
    /\ closed = {}
    /\ last = [op |-> "run"]
    /\ thr = [t \in WebThreads |-> IF t = SetupThread THEN [pc |-> "setup_sleep"] ELSE Idle]
    /\ shardOf = [id \in Ids |-> 1]
    /\ wlock = [s \in Shards |-> NoThread]
    /\ rlock = [s \in Shards |-> {}]
    /\ dirtied = [id \in Ids |-> 0]
    /\ delivered = [id \in Ids |-> 0]
    /\ PluginReady
    /\ TransferIdle
    /\ WebTabsUnused

\* what the web-tab layer never touches; the values the commands return are
\* not kept
webRest ==
    <<browsers, last, closed, shardOf, wlock, rlock, dirtied, delivered, pluginVars,
      transferVars>>

\* the command returns res
WebReturn(t, res) == thr' = [thr EXCEPT ![t] = Idle]

\* create_web_tab: a window with this label exists: close it, go on to remove
\* the tab; else go on to build
CreateTabLookup(t, id, url) ==
    /\ t \in Threads /\ thr[t] = Idle
    /\ IF id \in windows
       THEN /\ windows' = windows \ {id}
            /\ thr' = [thr EXCEPT ![t] = [pc |-> "tab_remove", id |-> id, url |-> url]]
       ELSE /\ thr' = [thr EXCEPT ![t] = [pc |-> "tab_build", id |-> id, url |-> url]]
            /\ UNCHANGED windows
    /\ UNCHANGED <<tabs, webRest>>

\* create_web_tab: state.lock(), tabs.remove(&tab_id)
CreateTabRemove(t) ==
    /\ t \in Threads /\ thr[t].pc = "tab_remove"
    /\ tabs' = tabs \ {thr[t].id}
    /\ thr' = [thr EXCEPT ![t].pc = "tab_build"]
    /\ UNCHANGED <<windows, webRest>>

\* create_web_tab: url.parse(), the main window, WebviewWindowBuilder ..
\* build(), which fails when the label is taken
CreateTabBuild(t) ==
    /\ t \in Threads /\ thr[t].pc = "tab_build"
    /\ IF ~UrlParses(thr[t].url)
       THEN /\ WebReturn(t, "Invalid URL")
            /\ UNCHANGED windows
       ELSE IF MainLabel \notin windows
       THEN /\ WebReturn(t, "Main window not found")
            /\ UNCHANGED windows
       ELSE IF thr[t].id \in windows
       THEN /\ WebReturn(t, "Failed to create web tab")
            /\ UNCHANGED windows
       ELSE /\ windows' = windows \cup {thr[t].id}
            /\ thr' = [thr EXCEPT ![t].pc = "tab_insert"]
    /\ UNCHANGED <<tabs, webRest>>

\* create_web_tab: state.lock(), tabs.insert(tab_id, ..), then the events and
\* Ok(tab_id)
CreateTabInsert(t) ==
    /\ t \in Threads /\ thr[t].pc = "tab_insert"
    /\ tabs' = tabs \cup {thr[t].id}
    /\ WebReturn(t, "ok")
    /\ UNCHANGED <<windows, webRest>>

\* close_web_tab: state.lock(), tabs.remove(&tab_id)
CloseTabRemove(t, id) ==
    /\ t \in Threads /\ thr[t] = Idle
    /\ tabs' = tabs \ {id}
    /\ thr' = [thr EXCEPT ![t] = [pc |-> "close_window", id |-> id]]
    /\ UNCHANGED <<windows, webRest>>

\* close_web_tab: the window, when there is one, closed
CloseTabWindow(t) ==
    /\ t \in Threads /\ thr[t].pc = "close_window"
    /\ windows' = windows \ {thr[t].id}
    /\ WebReturn(t, "ok")
    /\ UNCHANGED <<tabs, webRest>>

\* close_all_web_tabs: state.lock(), the keys collected
CloseAllKeys(t) ==
    /\ t \in Threads /\ thr[t] = Idle
    /\ thr' = [thr EXCEPT ![t] = [pc |-> "close_all_remove", todo |-> tabs]]
    /\ UNCHANGED <<tabs, windows, webRest>>

\* close_all_web_tabs: the next tab_id of the loop removed from the state, or
\* Ok(()) after the last
CloseAllRemove(t) ==
    /\ t \in Threads /\ thr[t].pc = "close_all_remove"
    /\ IF thr[t].todo = {}
       THEN /\ WebReturn(t, "ok")
            /\ UNCHANGED tabs
       ELSE /\ \E id \in thr[t].todo :
                /\ tabs' = tabs \ {id}
                /\ thr' = [thr EXCEPT ![t] = [pc |-> "close_all_window", id |-> id,
                                             todo |-> thr[t].todo \ {id}]]
    /\ UNCHANGED <<windows, webRest>>

\* close_all_web_tabs: the window of that tab_id closed
CloseAllWindow(t) ==
    /\ t \in Threads /\ thr[t].pc = "close_all_window"
    /\ windows' = windows \ {thr[t].id}
    /\ thr' = [thr EXCEPT ![t] = [pc |-> "close_all_remove", todo |-> thr[t].todo]]
    /\ UNCHANGED <<tabs, webRest>>

\* the clean-up, first block: state.lock(), known_tab_ids collected
CleanupKnown(t) ==
    /\ thr' = [thr EXCEPT ![t] = [pc |-> "orphan_windows", known |-> tabs]]
    /\ UNCHANGED <<tabs, windows, webRest>>

\* the clean-up: app.webview_windows(), the map the loop runs over
CleanupWindows(t) ==
    /\ thr[t].pc = "orphan_windows"
    /\ thr' = [thr EXCEPT ![t] = [pc |-> "orphan_visit", known |-> thr[t].known,
                                 todo |-> windows]]
    /\ UNCHANGED <<tabs, windows, webRest>>

\* the clean-up: one window of the loop, closed when its label starts with
\* "webtab-" and is not in known_tab_ids
CleanupVisit(t) ==
    /\ thr[t].pc = "orphan_visit"
    /\ \E w \in thr[t].todo :
        /\ windows' = IF StartsWithWebtab(w) /\ w \notin thr[t].known
                       THEN windows \ {w}
                       ELSE windows
        /\ thr' = [thr EXCEPT ![t].todo = @ \ {w}]
    /\ UNCHANGED <<tabs, webRest>>

\* close_all_orphaned_webviews: known_tab_ids
OrphansKnown(t) ==
    /\ t \in Threads /\ thr[t] = Idle
    /\ CleanupKnown(t)

OrphansWindows(t) == t \in Threads /\ CleanupWindows(t)

OrphansVisit(t) == t \in Threads /\ CleanupVisit(t)

\* close_all_orphaned_webviews: Ok(closed_count)
OrphansReturn(t) ==
    /\ t \in Threads /\ thr[t].pc = "orphan_visit"
    /\ thr[t].todo = {}
    /\ WebReturn(t, "ok")
    /\ UNCHANGED <<tabs, windows, webRest>>

\* the thread of setup, after its sleep: known_tab_ids
SetupKnown ==
    /\ thr[SetupThread].pc = "setup_sleep"
    /\ CleanupKnown(SetupThread)

SetupWindows == CleanupWindows(SetupThread)

SetupVisit == CleanupVisit(SetupThread)

\* the thread of setup ends
SetupEnd ==
    /\ thr[SetupThread].pc = "orphan_visit"
    /\ thr[SetupThread].todo = {}
    /\ thr' = [thr EXCEPT ![SetupThread] = [pc |-> "setup_done"]]
    /\ UNCHANGED <<tabs, windows, webRest>>

NextWebTab ==
    \/ \E t \in Threads, id \in TabIds, url \in TabUrls : CreateTabLookup(t, id, url)
    \/ \E t \in Threads : CreateTabRemove(t)
    \/ \E t \in Threads : CreateTabBuild(t)
    \/ \E t \in Threads : CreateTabInsert(t)
    \/ \E t \in Threads, id \in TabIds : CloseTabRemove(t, id)
    \/ \E t \in Threads : CloseTabWindow(t)
    \/ \E t \in Threads : CloseAllKeys(t)
    \/ \E t \in Threads : CloseAllRemove(t)
    \/ \E t \in Threads : CloseAllWindow(t)
    \/ \E t \in Threads : OrphansKnown(t)
    \/ \E t \in Threads : OrphansWindows(t)
    \/ \E t \in Threads : OrphansVisit(t)
    \/ \E t \in Threads : OrphansReturn(t)
    \/ SetupKnown
    \/ SetupWindows
    \/ SetupVisit
    \/ SetupEnd

SpecWebTab == InitWebTab /\ [][NextWebTab]_vars

(***************************************************************************)
(* Properties of SpecWebTab                                                *)
(***************************************************************************)
\* C30: a step of the clean-up (close_all_orphaned_webviews or the thread of
\* setup) closes only a window labelled "webtab-.." that belongs to no tab
\* and that no create_web_tab in progress has built and not yet recorded.  It
\* fails: the clean-up decides on a copy of the tab ids taken before it looks
\* at the windows, and create_web_tab builds the window before it records
\* the tab.
C30_CleanupClosesOnlyOrphans ==
    [][\A t \in WebThreads, w \in TabIds \cup {MainLabel} :
        (thr[t].pc = "orphan_visit" /\ thr'[t] # thr[t]
           /\ w \in windows /\ w \notin windows')
        => /\ StartsWithWebtab(w)
           /\ w \notin tabs
           /\ \A u \in Threads : ~(thr[u].pc = "tab_insert" /\ thr[u].id = w)]_vars
====
